---- MODULE Spec2Model ----
(***************************************************************************)
(* Domain and Protocol Switcher (src/script/index.js): the popup script of *)
(* a browser extension.  The model holds the synced store, the active      *)
(* tab's URL, the asynchronous chrome.* calls in flight with the closures  *)
(* their callbacks run in, and the parts of the popup's DOM the script     *)
(* reads and writes.                                                       *)
(*                                                                         *)
(* Strings the script inspects (trim, includes, ===) are sequences of      *)
(* one-character strings.  A chrome.* call completes when its callback     *)
(* runs; calls in flight complete in any order, since the script is told   *)
(* of completion by the callback alone.                                    *)
(***************************************************************************)
EXTENDS Integers, Sequences, FiniteSets, TLC

VARIABLES
    store,            \* chrome.storage.sync: the value under the key "domains"
    tab,              \* the active tab's URL, as the URL object's components
    pending,          \* chrome.* calls in flight, in the order they were issued
    domainList,       \* the children of #domainList
    addDomainButton,  \* #addDomainButton's style.display
    domainForm,       \* #domainForm's style.display
    nGroups,          \* the number of .variant-group elements of the form
    ev,               \* history: what the last step did and what it observed
    overlaps          \* history: the user actions taken with calls still in flight

vars ==
    <<store, tab, pending, domainList, addDomainButton, domainForm, nGroups, ev,
      overlaps>>

\* ------------------------------------------------------------------ bounds

\* The longest Collection the model lets an add produce.
MaxSets == 2

\* A user action is taken only while fewer calls than this are in flight.
MaxPending == 2

\* The user actions of one run that do not wait for the popup to settle.
MaxOverlaps == 1

\* ----------------------------------------------------------------- strings

SP == " "
Http == <<"h", "t", "t", "p">>
Https == <<"h", "t", "t", "p", "s">>
Ftp == <<"f", "t", "p">>
SchemeSep == <<":", "/", "/">>
PathSep == <<"/">>
Colon == <<":">>

\* String.prototype.includes
Includes(s, sub) ==
    \E i \in 1..(Len(s) - Len(sub) + 1) : SubSeq(s, i, i + Len(sub) - 1) = sub

RECURSIVE TrimStart(_)
TrimStart(s) ==
    IF s # <<>> /\ Head(s) = SP THEN TrimStart(Tail(s)) ELSE s

RECURSIVE TrimEnd(_)
TrimEnd(s) ==
    IF s # <<>> /\ s[Len(s)] = SP THEN TrimEnd(SubSeq(s, 1, Len(s) - 1)) ELSE s

\* String.prototype.trim
Trim(s) == TrimEnd(TrimStart(s))

\* url.protocol.replace(":", ""): the first ":" is removed.
RECURSIVE StripColon(_)
StripColon(s) ==
    IF s = <<>> THEN <<>>
    ELSE IF Head(s) = ":" THEN Tail(s)
    ELSE <<Head(s)>> \o StripColon(Tail(s))

\* ------------------------------------------------------------------ inputs

V(n, p, d) == [name |-> n, protocol |-> p, domain |-> d]

\* What the user may have typed into the form's variant groups when Save is
\* clicked: valid groups, padded ones, and ones each check rejects.
FormInputs ==
    { <<V(<<"L">>, Https, <<"a">>), V(<<"T">>, Http, <<"b">>)>>,
      <<V(<<"L">>, Https, <<"a">>), V(<<"T">>, Http, <<"a">>)>>,
      <<V(<<SP, "T">>, Http, <<"b", SP>>)>>,
      <<V(<<"L">>, Ftp, <<>>), V(<<>>, Https, <<"a", "/">>)>>,
      <<V(<<"L">>, Https, <<"a">>), V(<<SP>>, Https, <<"h", ":", "/", "/", "a">>)>> }

U(p, h, r) == [protocol |-> p, hostname |-> h, rest |-> r]

\* The URLs the active tab may show; rest is the port, path, query and fragment.
TabUrls ==
    { U(Https \o Colon, <<"a">>, "/q?x#f"),
      U(Http \o Colon, <<"a">>, "/p"),
      U(Http \o Colon, <<"b">>, "/p"),
      U(Https \o Colon, <<"c">>, "/p") }

\* ---------------------------------------------------------------- requests

NoVariant == V(<<>>, <<>>, <<>>)

\* A chrome.* call in flight and the closure of its callback: api is the call,
\* cont the function whose callback it is, by the caller of loadDomains, ovr
\* <<>> or <<the override pair>>, val a Collection (read, or to be written),
\* tvs thisVariantSet, done whether a write has reached the store.  h is
\* history: what the user action that started the chain was given.
Req(api, cont, by, ovr, val, tvs, h) ==
    [api |-> api, cont |-> cont, done |-> FALSE, by |-> by, ovr |-> ovr,
     val |-> val, tvs |-> tvs, h |-> h]

NoH == [form |-> <<>>, before |-> <<>>]

\* LoadReq gone wrong: the caller's override is dropped on the way.
LoadReqNoOverride(by, ovr, h) == Req("get", "load", by, <<>>, <<>>, <<>>, h)

\* loadDomains' chrome.storage.sync.get
LoadReq(by, ovr, h) == Req("get", "load", by, ovr, <<>>, <<>>, h)

RemoveAt(s, i) == SubSeq(s, 1, i - 1) \o SubSeq(s, i + 1, Len(s))

\* ---------------------------------------------------------------- DOM nodes

Prompt == [kind |-> "li", item |-> NoVariant, domains |-> <<>>, cds |-> 0]
SwitchButton(item) == [kind |-> "switch", item |-> item, domains |-> <<>>, cds |-> 0]
\* The button group with the delete button; its click handler closes over
\* domains and currentDomainSet (an element of domains, held by its index).
DeleteGroup(domains, cds) ==
    [kind |-> "group", item |-> NoVariant, domains |-> domains, cds |-> cds]

NoEv == [kind |-> "none"]

\* ------------------------------------------------------------------- state

Init ==
    /\ store = <<>>
    /\ tab \in TabUrls
    /\ pending = <<LoadReq("init", <<>>, NoH)>>
    /\ domainList = <<>>
    /\ addDomainButton = "block"
    /\ domainForm = "none"
    /\ nGroups = 1
    /\ ev = NoEv
    /\ overlaps = 0

\* ------------------------------------------------------------- validation

Alert(msg, index) == [msg |-> msg, variant |-> index + 1]

\* The forEach callback of addNewDomainVariantGroup on one group: the alert it
\* raises before it returns, or none.  index is forEach's 0-based index.
GroupAlerts(group, index) ==
    LET nameInput == Trim(group.name)
        protocolInput == Trim(group.protocol)
        domainInput == Trim(group.domain)
    IN  IF protocolInput # Http /\ protocolInput # Https
            THEN <<Alert("protocol", index)>>
        ELSE IF domainInput = <<>>
            THEN <<Alert("domain", index)>>
        ELSE IF Includes(domainInput, SchemeSep)
            THEN <<Alert("domain without protocol", index)>>
        ELSE IF Includes(domainInput, PathSep)
            THEN <<Alert("domain without path", index)>>
        ELSE IF nameInput = <<>>
            THEN <<Alert("name", index)>>
        ELSE <<>>

\* variantGroups.forEach(...): the callback runs on every group in turn; its
\* return ends that group's call only.
RECURSIVE ForEachAlerts(_, _)
ForEachAlerts(groups, index) ==
    IF index >= Len(groups) THEN <<>>
    ELSE GroupAlerts(groups[index + 1], index) \o ForEachAlerts(groups, index + 1)

\* Array.from(variantGroups).map(...)
ThisVariantSet(groups) ==
    [i \in 1..Len(groups) |->
        V(Trim(groups[i].name), Trim(groups[i].protocol), Trim(groups[i].domain))]

\* Push gone wrong: the new set is put in front (unshift).
Unshift(domainsCpy, set) == <<set>> \o domainsCpy

\* domainsCpy.push(thisVariantSet)
Push(domainsCpy, set) == Append(domainsCpy, set)

\* ---------------------------------------------------------------- matching

\* set.some(item => item.protocol === currentProtocol && item.domain === currentDomain)
Some(set, currentProtocol, currentDomain) ==
    \E k \in 1..Len(set) :
        set[k].protocol = currentProtocol /\ set[k].domain = currentDomain

\* Find gone wrong: the scan runs from the end, so the last set that passes
\* is taken.
RECURSIVE FindLast(_, _, _, _)
FindLast(domains, i, currentProtocol, currentDomain) ==
    IF Len(domains) - i + 1 < 1 THEN 0
    ELSE IF Some(domains[Len(domains) - i + 1], currentProtocol, currentDomain)
        THEN Len(domains) - i + 1
    ELSE FindLast(domains, i + 1, currentProtocol, currentDomain)

\* domains.find(set => set.some(...)) from index i on: the index of the set
\* found, 0 for undefined.
RECURSIVE Find(_, _, _, _)
Find(domains, i, currentProtocol, currentDomain) ==
    IF i > Len(domains) THEN 0
    ELSE IF Some(domains[i], currentProtocol, currentDomain) THEN i
    ELSE Find(domains, i + 1, currentProtocol, currentDomain)

\* currentDomainSet.forEach: the items a "Switch to" button is made for.
SwitchItems(set, currentProtocol, currentDomain) ==
    SelectSeq(set, LAMBDA item : item.domain # currentDomain)

RECURSIVE Buttons(_)
Buttons(items) ==
    IF items = <<>> THEN <<>>
    ELSE <<SwitchButton(Head(items))>> \o Buttons(Tail(items))

\* SwitchedUrl gone wrong: the scheme is left as it was.
SwitchedHostOnly(url, newProtocol, newDomain) ==
    [url EXCEPT !.hostname = newDomain]

\* switchDomain's url.protocol = newProtocol + ":"; url.hostname = newDomain
SwitchedUrl(url, newProtocol, newDomain) ==
    [url EXCEPT !.protocol = newProtocol \o Colon, !.hostname = newDomain]

\* -------------------------------------------------------------- environment

\* The active tab navigates, or another tab becomes the active one.
TabChanges ==
    /\ \E u \in TabUrls : u # tab /\ tab' = u
    /\ ev' = NoEv
    /\ UNCHANGED <<store, pending, domainList, addDomainButton, domainForm, nGroups>>

\* ------------------------------------------------------------ user actions

\* #addDomainButton click: showAddDomainForm.  Its tabs.query callback fills
\* the first group's fields, which the user may overtype before Save.
ShowAddDomainForm ==
    /\ addDomainButton = "block"
    /\ domainForm' = "block"
    /\ ev' = NoEv
    /\ UNCHANGED <<store, tab, pending, domainList, addDomainButton, nGroups>>

\* #addVariantButton click: addVariant appends a variant group.
AddVariant ==
    /\ domainForm = "block"
    /\ \E f \in FormInputs : Len(f) > nGroups
    /\ nGroups' = nGroups + 1
    /\ ev' = NoEv
    /\ UNCHANGED <<store, tab, pending, domainList, addDomainButton, domainForm>>

\* #cancelButton click: cancelAddDomain.
CancelAddDomain ==
    /\ domainForm = "block"
    /\ nGroups' = 1
    /\ domainForm' = "none"
    /\ ev' = NoEv
    /\ UNCHANGED <<store, tab, pending, domainList, addDomainButton>>

Max(S) == CHOOSE x \in S : \A y \in S : y <= x

\* The longest Collection the adds in flight can come to write.
Potential ==
    Max({Len(store)} \cup {Len(pending[i].val) : i \in DOMAIN pending})
        + Cardinality({i \in DOMAIN pending :
                          pending[i].api = "get" /\ pending[i].cont = "add"})

\* #saveDomainButton click: addNewDomainVariantGroup, to its storage.get.
SaveClick ==
    /\ domainForm = "block"
    /\ Potential < MaxSets
    /\ \E groups \in FormInputs :
        /\ Len(groups) = nGroups
        /\ pending' = Append(pending,
               Req("get", "add", "-", <<>>, <<>>, ThisVariantSet(groups),
                   [form |-> groups, before |-> store]))
        /\ ev' = [kind |-> "save", form |-> groups,
                  alerts |-> ForEachAlerts(groups, 0)]
    /\ UNCHANGED <<store, tab, domainList, addDomainButton, domainForm, nGroups>>

\* "Switch to" button click: switchDomain(item.protocol, item.domain).
SwitchClick ==
    \E k \in DOMAIN domainList :
        /\ domainList[k].kind = "switch"
        /\ LET item == domainList[k].item
               ovr == <<[newProtocol |-> item.protocol, newDomain |-> item.domain]>>
           IN  /\ pending' = pending \o
                      << Req("query", "switch", "-", ovr, <<>>, <<>>, NoH),
                         LoadReq("switch", ovr, NoH) >>
               /\ ev' = [kind |-> "switchClick", item |-> item, store |-> store]
        /\ domainList' = <<>>
        /\ UNCHANGED <<store, tab, addDomainButton, domainForm, nGroups>>

\* domains.filter((set) => set !== currentDomainSet): the one element that is
\* the object currentDomainSet goes; after that no element is.
Filter(domains, cds) ==
    IF cds = 0 THEN domains ELSE RemoveAt(domains, cds)

\* "Delete All Domain Variants" click.
DeleteClick ==
    \E k \in DOMAIN domainList :
        /\ domainList[k].kind = "group"
        /\ LET g == domainList[k]
               domains == Filter(g.domains, g.cds)
           IN  /\ domainList' = [domainList EXCEPT ![k] = DeleteGroup(domains, 0)]
               /\ pending' = Append(pending,
                      Req("set", "delete", "-", <<>>, domains, <<>>, NoH))
               /\ ev' = [kind |-> "deleteClick", store |-> store,
                         set |-> IF g.cds = 0 THEN <<>> ELSE g.domains[g.cds],
                         fresh |-> g.cds # 0, value |-> domains]
        /\ UNCHANGED <<store, tab, addDomainButton, domainForm, nGroups>>

\* #resetDataButton click: resetAllData(); loadDomains().
ResetClick ==
    /\ pending' = pending \o
           << Req("set", "reset", "-", <<>>, <<>>, <<>>, NoH),
              LoadReq("reset", <<>>, NoH) >>
    /\ domainList' = <<>>
    /\ ev' = [kind |-> "resetClick"]
    /\ UNCHANGED <<store, tab, addDomainButton, domainForm, nGroups>>

\* ------------------------------------------------------------- completions

Without(i) == RemoveAt(pending, i)

\* addNewDomainVariantGroup's storage.get callback.
AddGetCallback(i) ==
    /\ pending[i].api = "get" /\ pending[i].cont = "add"
    /\ pending' = Append(Without(i),
           Req("set", "add", "-", <<>>, Push(store, pending[i].tvs),
               pending[i].tvs, pending[i].h))
    /\ ev' = [kind |-> "addRead", data |-> store]
    /\ UNCHANGED <<store, tab, domainList, addDomainButton, domainForm, nGroups>>

\* A chrome.storage.sync.set reaches the store.
SetLands(i) ==
    /\ pending[i].api = "set" /\ ~pending[i].done
    /\ store' = pending[i].val
    /\ pending' = [pending EXCEPT ![i].done = TRUE]
    /\ ev' = [kind |-> "written", cont |-> pending[i].cont]
    /\ UNCHANGED <<tab, domainList, addDomainButton, domainForm, nGroups>>

\* addNewDomainVariantGroup's storage.set callback.
AddSetCallback(i) ==
    /\ pending[i].api = "set" /\ pending[i].cont = "add" /\ pending[i].done
    /\ pending' = Append(Without(i), LoadReq("add", <<>>, pending[i].h))
    /\ domainList' = <<>>
    /\ domainForm' = "none"
    /\ ev' = NoEv
    /\ UNCHANGED <<store, tab, addDomainButton, nGroups>>

\* The delete button's storage.set callback.
DeleteSetCallback(i) ==
    /\ pending[i].api = "set" /\ pending[i].cont = "delete" /\ pending[i].done
    /\ pending' = Append(Without(i), LoadReq("delete", <<>>, NoH))
    /\ domainList' = <<>>
    /\ ev' = NoEv
    /\ UNCHANGED <<store, tab, addDomainButton, domainForm, nGroups>>

\* resetAllData's storage.set callback: console.log.
ResetSetCallback(i) ==
    /\ pending[i].api = "set" /\ pending[i].cont = "reset" /\ pending[i].done
    /\ pending' = Without(i)
    /\ ev' = NoEv
    /\ UNCHANGED <<store, tab, domainList, addDomainButton, domainForm, nGroups>>

\* loadDomains' storage.get callback.
LoadGetCallback(i) ==
    /\ pending[i].api = "get" /\ pending[i].cont = "load"
    /\ LET domains == store
       IN  /\ IF Len(domains) = 0
                THEN /\ domainList' = <<Prompt>>
                     /\ pending' = Without(i)
                ELSE /\ pending' = Append(Without(i),
                            Req("query", "load", pending[i].by, pending[i].ovr,
                                domains, <<>>, NoH))
                     /\ UNCHANGED domainList
           /\ ev' = [kind |-> "loaded", by |-> pending[i].by, data |-> domains,
                     h |-> pending[i].h, store |-> store]
    /\ UNCHANGED <<store, tab, addDomainButton, domainForm, nGroups>>

\* loadDomains' tabs.query callback.
LoadQueryCallback(i) ==
    /\ pending[i].api = "query" /\ pending[i].cont = "load"
    /\ LET r == pending[i]
           domains == r.val
           currentProtocol ==
               IF r.ovr # <<>> THEN r.ovr[1].newProtocol ELSE StripColon(tab.protocol)
           currentDomain ==
               IF r.ovr # <<>> THEN r.ovr[1].newDomain ELSE tab.hostname
           cds == Find(domains, 1, currentProtocol, currentDomain)
           items == IF cds = 0 THEN <<>>
                    ELSE SwitchItems(domains[cds], currentProtocol, currentDomain)
       IN  /\ IF cds = 0
                THEN /\ domainList' = <<Prompt>>
                     /\ addDomainButton' = "block"
                ELSE /\ addDomainButton' = "none"
                     /\ domainList' =
                            domainList \o Buttons(items) \o <<DeleteGroup(domains, cds)>>
           /\ ev' = [kind |-> "render", by |-> r.by, domains |-> domains,
                     tab |-> tab, ovr |-> r.ovr, cds |-> cds, items |-> items,
                     store |-> store]
    /\ pending' = Without(i)
    /\ UNCHANGED <<store, tab, domainForm, nGroups>>

\* switchDomain's tabs.query callback: chrome.tabs.update(tab.id, {url}).
SwitchQueryCallback(i) ==
    /\ pending[i].api = "query" /\ pending[i].cont = "switch"
    /\ tab' = SwitchedUrl(tab, pending[i].ovr[1].newProtocol, pending[i].ovr[1].newDomain)
    /\ pending' = Without(i)
    /\ ev' = [kind |-> "switched", old |-> tab, target |-> pending[i].ovr[1],
              store |-> store]
    /\ UNCHANGED <<store, domainList, addDomainButton, domainForm, nGroups>>

\* ----------------------------------------------------------- specifications

\* The user acts once the popup has settled.
Settled ==
    /\ pending = <<>>
    /\ UNCHANGED overlaps

\* The user acts when the popup has settled or, a bounded number of times,
\* while calls are still in flight.
Anytime ==
    \/ Settled
    \/ /\ pending # <<>>
       /\ Len(pending) < MaxPending
       /\ overlaps < MaxOverlaps
       /\ overlaps' = overlaps + 1

Next ==
    \/ Anytime /\ ShowAddDomainForm
    \/ Anytime /\ AddVariant
    \/ Anytime /\ CancelAddDomain
    \/ Anytime /\ SaveClick
    \/ Anytime /\ SwitchClick
    \/ Anytime /\ DeleteClick
    \/ Anytime /\ ResetClick
    \/ \E i \in DOMAIN pending : AddGetCallback(i) /\ UNCHANGED overlaps
    \/ \E i \in DOMAIN pending : SetLands(i) /\ UNCHANGED overlaps
    \/ \E i \in DOMAIN pending : AddSetCallback(i) /\ UNCHANGED overlaps
    \/ \E i \in DOMAIN pending : DeleteSetCallback(i) /\ UNCHANGED overlaps
    \/ \E i \in DOMAIN pending : ResetSetCallback(i) /\ UNCHANGED overlaps
    \/ \E i \in DOMAIN pending : LoadGetCallback(i) /\ UNCHANGED overlaps
    \/ \E i \in DOMAIN pending : LoadQueryCallback(i) /\ UNCHANGED overlaps
    \/ \E i \in DOMAIN pending : SwitchQueryCallback(i) /\ UNCHANGED overlaps
    \/ TabChanges /\ UNCHANGED overlaps

Spec == Init /\ [][Next]_vars

\* One user action at a time: the next one waits for the popup to settle.
NextSeq ==
    \/ Settled /\ ShowAddDomainForm
    \/ Settled /\ AddVariant
    \/ Settled /\ CancelAddDomain
    \/ Settled /\ SaveClick
    \/ Settled /\ SwitchClick
    \/ Settled /\ DeleteClick
    \/ Settled /\ ResetClick
    \/ \E i \in DOMAIN pending : AddGetCallback(i) /\ UNCHANGED overlaps
    \/ \E i \in DOMAIN pending : SetLands(i) /\ UNCHANGED overlaps
    \/ \E i \in DOMAIN pending : AddSetCallback(i) /\ UNCHANGED overlaps
    \/ \E i \in DOMAIN pending : DeleteSetCallback(i) /\ UNCHANGED overlaps
    \/ \E i \in DOMAIN pending : ResetSetCallback(i) /\ UNCHANGED overlaps
    \/ \E i \in DOMAIN pending : LoadGetCallback(i) /\ UNCHANGED overlaps
    \/ \E i \in DOMAIN pending : LoadQueryCallback(i) /\ UNCHANGED overlaps
    \/ \E i \in DOMAIN pending : SwitchQueryCallback(i) /\ UNCHANGED overlaps
    \/ TabChanges /\ UNCHANGED overlaps

SpecSeq == Init /\ [][NextSeq]_vars

\* ------------------------------------------------- what the claims speak of

\* s without its leading and trailing spaces, said without Trim.
Stripped(s) ==
    LET c == CHOOSE c \in (1..(Len(s) + 1)) \X (0..Len(s)) :
                 /\ c[1] <= c[2] + 1
                 /\ \A k \in 1..(c[1] - 1) : s[k] = SP
                 /\ \A k \in (c[2] + 1)..Len(s) : s[k] = SP
                 /\ c[1] <= c[2] => s[c[1]] # SP /\ s[c[2]] # SP
    IN  SubSeq(s, c[1], c[2])

StrippedGroup(g) == V(Stripped(g.name), Stripped(g.protocol), Stripped(g.domain))

StrippedForm(form) == [k \in 1..Len(form) |-> StrippedGroup(form[k])]

\* The check of the validation order that a Variant fails first, "" for none.
FirstFailedCheck(v) ==
    IF v.protocol \notin {Http, Https} THEN "protocol"
    ELSE IF v.domain = <<>> THEN "domain"
    ELSE IF \E i \in 1..(Len(v.domain) - 2) : SubSeq(v.domain, i, i + 2) = SchemeSep
        THEN "domain without protocol"
    ELSE IF \E i \in 1..Len(v.domain) : v.domain[i] = "/"
        THEN "domain without path"
    ELSE IF v.name = <<>> THEN "name"
    ELSE ""

Rejected(v) == FirstFailedCheck(v) # ""

\* The positions of the form's groups that fail validation.
Failing(form) == {k \in 1..Len(form) : Rejected(StrippedGroup(form[k]))}

HasPair(set, protocol, host) ==
    \E k \in 1..Len(set) : set[k].protocol = protocol /\ set[k].domain = host

\* k is the first set of domains holding (protocol, host); 0 when none does.
IsFirstWith(domains, protocol, host, k) ==
    IF \E j \in 1..Len(domains) : HasPair(domains[j], protocol, host)
        THEN /\ k \in 1..Len(domains)
             /\ HasPair(domains[k], protocol, host)
             /\ \A j \in 1..(k - 1) : ~HasPair(domains[j], protocol, host)
        ELSE k = 0

\* The scheme of a URL's protocol: what stands before its final ":".
Scheme(protocol) == SubSeq(protocol, 1, Len(protocol) - 1)

\* ------------------------------------------------------------------ claims

\* C1: an add in which a candidate Variant fails validation is aborted: no
\* write of it to storage is issued.  (The code goes on after the alerts.)
C1_InvalidAddIssuesNoWrite ==
    \A i \in DOMAIN pending :
        pending[i].api = "set" /\ pending[i].cont = "add"
            => Failing(pending[i].h.form) = {}

\* C2: when a set matches, the switch targets rendered are the members of the
\* matched set whose (protocol, domain) differs from the tab's (protocol,
\* host), in the set's order.  (The code leaves out every member whose domain
\* is the tab's host, whatever its protocol.)
C2_TargetsDifferInPair ==
    ev.kind = "render" /\ ev.cds # 0 =>
        ev.items = SelectSeq(ev.domains[ev.cds],
                       LAMBDA item : ~(item.protocol = Scheme(ev.tab.protocol)
                                       /\ item.domain = ev.tab.hostname))

\* C3, as stated: the set loadDomains treats as matched is the first set
\* holding the active tab's (protocol, host), and none when no set holds it.
C3_FirstWithTabPair ==
    ev.kind = "render" =>
        IsFirstWith(ev.domains, Scheme(ev.tab.protocol), ev.tab.hostname, ev.cds)

\* C3, amended: the set loadDomains treats as matched is the first set, in
\* Collection order, holding the pair it matches on (exact equality on
\* protocol and on domain): the active tab's (protocol, host) or, when
\* switchDomain passed an override, the override's; none when no set holds it.
C3_FirstWithMatchedPair ==
    ev.kind = "render" =>
        IF ev.ovr = <<>>
            THEN IsFirstWith(ev.domains, Scheme(ev.tab.protocol), ev.tab.hostname,
                             ev.cds)
            ELSE IsFirstWith(ev.domains, ev.ovr[1].newProtocol, ev.ovr[1].newDomain,
                             ev.cds)

\* C3's case: the tab's pair is in two sets and the earlier one is matched.
C3_Witness ==
    /\ ev.kind = "render"
    /\ ev.ovr = <<>>
    /\ Len(ev.domains) >= 2
    /\ ev.cds = 1
    /\ HasPair(ev.domains[1], Scheme(ev.tab.protocol), ev.tab.hostname)
    /\ HasPair(ev.domains[2], Scheme(ev.tab.protocol), ev.tab.hostname)
    /\ ev.domains[1] # ev.domains[2]

\* C4: the Collection a delete click persists is the Collection persisted at
\* the moment of the click with the one matched set removed, every other set
\* kept in place.  (The code persists the Collection the render read, less
\* the matched set, whatever the store holds by the time of the click.)
C4_DeleteRemovesFromStore ==
    ev.kind = "deleteClick" /\ ev.fresh =>
        IF \E i \in DOMAIN ev.store : ev.store[i] = ev.set
            THEN \E i \in DOMAIN ev.store :
                    /\ ev.store[i] = ev.set
                    /\ ev.value = RemoveAt(ev.store, i)
            ELSE ev.value = ev.store

\* C5: a re-render that finds no matching set, the empty Collection included,
\* ends with the prompt shown and the add-domain control visible.  (On the
\* empty Collection the code returns before it shows the control.)
C5_NoMatchOffersAdd ==
    \/ ev.kind = "render" /\ ev.cds = 0
    \/ ev.kind = "loaded" /\ ev.data = <<>>
    => domainList = <<Prompt>> /\ addDomainButton = "block"

\* C6, as stated: a valid add run to completion and then a load returns the
\* prior Collection with the entered Variants appended as one new set.
C6_LoadReturnsEntered ==
    ev.kind = "loaded" /\ ev.by = "add" /\ Failing(ev.h.form) = {} =>
        ev.data = Append(ev.h.before, ev.h.form)

\* C6, amended: a valid add run to completion and then a load returns the
\* prior Collection, unchanged and in order, with one new set appended at the
\* end: the entered Variants in form order, each field without its leading
\* and trailing whitespace.
C6_LoadReturnsStripped ==
    ev.kind = "loaded" /\ ev.by = "add" /\ Failing(ev.h.form) = {} =>
        ev.data = Append(ev.h.before, StrippedForm(ev.h.form))

\* C6's case: a valid form of two Variants added to a Collection that held a
\* set, and loaded.
C6_Witness ==
    /\ ev.kind = "loaded"
    /\ ev.by = "add"
    /\ Failing(ev.h.form) = {}
    /\ Len(ev.h.form) = 2
    /\ Len(ev.h.before) = 1
    /\ Len(ev.data) = 2

\* C7: the load the reset handler issues observes the empty Collection.  (The
\* handler issues it without waiting for the reset's write.)
C7_LoadAfterResetIsEmpty ==
    ev.kind = "loaded" /\ ev.by = "reset" => ev.data = <<>>

\* C8: one add reports at most one failure, that of the first failing Variant
\* in form order, by its first failing check and its 1-based position.  (The
\* code reports every failing Variant.)
C8_OneReportOfFirstFailure ==
    ev.kind = "save" =>
        IF Failing(ev.form) = {} THEN ev.alerts = <<>>
        ELSE LET k == CHOOSE k \in Failing(ev.form) :
                          \A j \in Failing(ev.form) : k <= j
             IN  ev.alerts =
                     <<[msg |-> FirstFailedCheck(StrippedGroup(ev.form[k])),
                        variant |-> k]>>

\* C9: a switch sets the scheme and the hostname of the active tab's URL to
\* the Variant's protocol and domain and leaves the rest of the URL (port,
\* path, query, fragment) as it was; the switch, and the re-render it issues,
\* leave the persisted Collection as it was.
C9_SwitchRewritesSchemeAndHost ==
    /\ ev.kind = "switched" =>
        /\ Scheme(tab.protocol) = ev.target.newProtocol
        /\ tab.protocol[Len(tab.protocol)] = ":"
        /\ tab.hostname = ev.target.newDomain
        /\ tab.rest = ev.old.rest
        /\ store = ev.store
    /\ ev.kind = "switchClick" => store = ev.store
    /\ ev.kind \in {"loaded", "render"} /\ ev.by = "switch" => store = ev.store

\* C9's case: a switch has changed both the scheme and the hostname of a URL
\* with a path, a query and a fragment.
C9_Witness ==
    /\ ev.kind = "switched"
    /\ tab.protocol # ev.old.protocol
    /\ tab.hostname # ev.old.hostname
    /\ ev.old.rest = "/q?x#f"
    /\ store # <<>>

\* C10: the re-render's read of the store is issued only after the write of
\* the action that re-renders has completed.  (The reset handler issues both
\* at once.)
C10_RereadAfterWrite ==
    \A i, j \in DOMAIN pending :
        /\ pending[i].api = "get" /\ pending[i].cont = "load"
        /\ pending[i].by \in {"add", "delete", "reset"}
        /\ pending[j].api = "set" /\ pending[j].cont = pending[i].by
        => pending[j].done

\* C11, as stated: every operation that needs the active tab's protocol and
\* host decides by the tab as it is during that operation: a re-render (the
\* one after a switch too) matches the first set holding the tab's pair of
\* that time, and a delete removes a set holding the tab's pair of the time
\* of the click.
C11_DecidedByTabAtThatTime ==
    /\ ev.kind = "render" =>
           IsFirstWith(ev.domains, Scheme(ev.tab.protocol), ev.tab.hostname,
                       ev.cds)
    /\ ev.kind = "deleteClick" /\ ev.fresh =>
           HasPair(ev.set, Scheme(tab.protocol), tab.hostname)

\* C11, amended: switchDomain rewrites the URL the tab has when its query
\* returns, and a render that does not follow a switch matches on the pair
\* the tab has when its query returns.  The render that follows a switch is
\* handed the clicked target's pair and matches on that, whatever the tab is
\* by then.  A render that matches hands its Collection and its matched set
\* to the delete button, and a delete click writes that Collection less that
\* set (the first click; nothing more goes on a later one), whatever the tab
\* is by then.
C11_OwnQueryOrCarriedPair ==
    [][ /\ ev'.kind = "switchClick" =>
               /\ pending'[Len(pending')].cont = "load"
               /\ pending'[Len(pending')].by = "switch"
               /\ pending'[Len(pending')].ovr =
                      <<[newProtocol |-> ev'.item.protocol,
                         newDomain |-> ev'.item.domain]>>
        /\ ev'.kind = "switched" =>
               /\ Scheme(tab'.protocol) = ev'.target.newProtocol
               /\ tab'.hostname = ev'.target.newDomain
               /\ tab'.rest = tab.rest
        /\ ev'.kind = "render" /\ ev'.by # "switch" =>
               /\ ev'.ovr = <<>>
               /\ IsFirstWith(ev'.domains, Scheme(tab.protocol), tab.hostname,
                              ev'.cds)
        /\ ev'.kind = "render" /\ ev'.by = "switch" =>
               /\ ev'.ovr # <<>>
               /\ IsFirstWith(ev'.domains, ev'.ovr[1].newProtocol,
                              ev'.ovr[1].newDomain, ev'.cds)
        /\ ev'.kind = "render" /\ ev'.cds # 0 =>
               /\ domainList'[Len(domainList')].kind = "group"
               /\ domainList'[Len(domainList')].domains = ev'.domains
               /\ domainList'[Len(domainList')].cds = ev'.cds
        /\ ev'.kind = "deleteClick" =>
               \E k \in DOMAIN domainList :
                   /\ domainList[k].kind = "group"
                   /\ ev'.value =
                          IF domainList[k].cds = 0 THEN domainList[k].domains
                          ELSE SubSeq(domainList[k].domains, 1,
                                      domainList[k].cds - 1)
                               \o SubSeq(domainList[k].domains,
                                         domainList[k].cds + 1,
                                         Len(domainList[k].domains))
                   /\ pending'[Len(pending')].api = "set"
                   /\ pending'[Len(pending')].val = ev'.value
      ]_vars

\* C11's case: the render that follows a switch shows a set that holds the
\* clicked target's pair and not the pair the tab has at that time.
C11_Witness ==
    /\ ev.kind = "render"
    /\ ev.by = "switch"
    /\ ev.cds # 0
    /\ HasPair(ev.domains[ev.cds], ev.ovr[1].newProtocol, ev.ovr[1].newDomain)
    /\ ~HasPair(ev.domains[ev.cds], Scheme(ev.tab.protocol), ev.tab.hostname)

====
